---- MODULE Spec2Model ----
(***************************************************************************)
(* Model of get_features.py (mashup-tools): the Song class (key estimation *)
(* with the Krumhansl-Schmuckler algorithm, tempo estimation) and the      *)
(* command-line script that drives it.                                     *)
(*                                                                         *)
(* Numbers.  The program computes in floating point.  The model computes   *)
(* the same expressions exactly:                                           *)
(*   - a profile or energy value is an integer number of hundredths;       *)
(*   - a z-scored vector is kept as integer numerators num[i] together     *)
(*     with the radicals they are divided by: rad is a sequence of records *)
(*     [q, n], and element i stands for num[i] / Prod sqrt(q / n).  The    *)
(*     z-score of a is (len*a[i] - sum a) / sqrt(ssq / len) with           *)
(*     ssq = Sum (len*a[i] - sum a)^2, which is exactly (a[i]-mean)/std;   *)
(*   - a radical with q = 0 is a zero standard deviation: 0/0, a NaN;      *)
(*   - comparisons of two such numbers are decided on their squares with   *)
(*     multi-limb naturals, since the squares exceed the integers of TLC.  *)
(* Rounding error of the floating-point evaluation is not modelled.        *)
(***************************************************************************)
EXTENDS Integers, Sequences, FiniteSets, TLC

(***************************************************************************)
(* Program constants: Song.MAJOR_PROFILE, Song.MINOR_PROFILE (hundredths), *)
(* Song.NOTE_NAMES, and the default analysis window of the script.         *)
(***************************************************************************)
MAJOR_PROFILE == <<635, 223, 348, 233, 438, 409, 252, 519, 239, 366, 229, 288>>

MINOR_PROFILE == <<633, 268, 352, 538, 260, 353, 254, 475, 398, 269, 334, 317>>

NOTE_NAMES == <<"C", "C#", "D", "D#", "E", "F", "F#", "G", "G#", "A", "A#", "B">>

DefaultDuration == 10

DefaultPath == "./test_data/openmind.mp3"

(***************************************************************************)
(* Bounds of the model.                                                    *)
(***************************************************************************)
MaxSegments == 2

MaxReadings == 3

MaxScore == 2

(***************************************************************************)
(* Sequence helpers.                                                       *)
(***************************************************************************)
RECURSIVE SumSeq(_)
SumSeq(s) == IF s = <<>> THEN 0 ELSE Head(s) + SumSeq(Tail(s))

RECURSIVE SeqsUpTo(_, _)
SeqsUpTo(S, n) ==
  IF n = 0 THEN {<<>>}
  ELSE LET shorter == SeqsUpTo(S, n - 1)
       IN  shorter \cup {Append(s, x) : s \in {t \in shorter : Len(t) = n - 1}, x \in S}

(***************************************************************************)
(* Multi-limb naturals (little-endian, base 10000), used only to compare   *)
(* squares of scores.                                                      *)
(***************************************************************************)
Base == 10000

RECURSIVE BigOf(_)
BigOf(n) == IF n < Base THEN <<n>> ELSE <<n % Base>> \o BigOf(n \div Base)

RECURSIVE BigMulLimb(_, _, _)
BigMulLimb(a, d, carry) ==
  IF a = <<>> THEN (IF carry = 0 THEN <<>> ELSE BigOf(carry))
  ELSE LET t == Head(a) * d + carry
       IN  <<t % Base>> \o BigMulLimb(Tail(a), d, t \div Base)

RECURSIVE BigAdd(_, _, _)
BigAdd(a, b, carry) ==
  IF a = <<>> /\ b = <<>> THEN (IF carry = 0 THEN <<>> ELSE <<carry>>)
  ELSE LET x == IF a = <<>> THEN 0 ELSE Head(a)
           y == IF b = <<>> THEN 0 ELSE Head(b)
           t == x + y + carry
       IN  <<t % Base>> \o BigAdd(IF a = <<>> THEN a ELSE Tail(a),
                                  IF b = <<>> THEN b ELSE Tail(b), t \div Base)

RECURSIVE BigMul(_, _)
BigMul(a, b) ==
  IF b = <<>> THEN <<>>
  ELSE BigAdd(BigMulLimb(a, Head(b), 0), <<0>> \o BigMul(a, Tail(b)), 0)

RECURSIVE BigTrim(_)
BigTrim(a) ==
  IF a = <<>> THEN a
  ELSE IF a[Len(a)] = 0 THEN BigTrim(SubSeq(a, 1, Len(a) - 1)) ELSE a

RECURSIVE BigLessTrimmed(_, _)
BigLessTrimmed(a, b) ==
  IF Len(a) # Len(b) THEN Len(a) < Len(b)
  ELSE IF a = <<>> THEN FALSE
  ELSE IF a[Len(a)] # b[Len(b)] THEN a[Len(a)] < b[Len(b)]
  ELSE BigLessTrimmed(SubSeq(a, 1, Len(a) - 1), SubSeq(b, 1, Len(b) - 1))

BigLess(a, b) == BigLessTrimmed(BigTrim(a), BigTrim(b))

RECURSIVE BigProd(_)
BigProd(s) == IF s = <<>> THEN <<1>> ELSE BigMul(BigOf(Head(s)), BigProd(Tail(s)))

(***************************************************************************)
(* Numbers of the program: num / Prod_{r in rad} sqrt(r.q / r.n).          *)
(***************************************************************************)
Abs(x) == IF x < 0 THEN -x ELSE x

Sign(x) == IF x < 0 THEN -1 ELSE IF x = 0 THEN 0 ELSE 1

IsNaN(rad) == \E k \in DOMAIN rad : rad[k].q = 0

\* |a|^2 * Prod (n of a's radicals) * Prod (q of b's radicals): the square of
\* |a| cross-multiplied with the denominators of b.
CrossSquare(anum, arad, brad) ==
  BigMul(BigMul(BigOf(Abs(anum)), BigOf(Abs(anum))),
         BigMul(BigProd([k \in DOMAIN arad |-> arad[k].n]),
                BigProd([k \in DOMAIN brad |-> brad[k].q])))

\* a < b for a = anum / sqrt(..arad..), b = bnum / sqrt(..brad..).  Any
\* comparison with a NaN is false, as in IEEE arithmetic.
ScalarLess(anum, arad, bnum, brad) ==
  IF IsNaN(arad) \/ IsNaN(brad) THEN FALSE
  ELSE IF arad = brad THEN anum < bnum
  ELSE IF Sign(anum) # Sign(bnum) THEN Sign(anum) < Sign(bnum)
  ELSE IF Sign(anum) = 0 THEN FALSE
  ELSE IF Sign(anum) > 0
       THEN BigLess(CrossSquare(anum, arad, brad), CrossSquare(bnum, brad, arad))
       ELSE BigLess(CrossSquare(bnum, brad, arad), CrossSquare(anum, arad, brad))

(***************************************************************************)
(* Library operations as the program uses them.                            *)
(***************************************************************************)
\* scipy.stats.zscore(array): (a - mean) / population std, element by
\* element.  A constant array has std 0 and every element becomes 0/0 = NaN.
ZScore(array) ==
  LET n   == Len(array)
      s   == SumSeq(array)
      num == [i \in 1..n |-> n * array[i] - s]
  IN  [num |-> num,
       rad |-> <<[q |-> SumSeq([i \in 1..n |-> num[i] * num[i]]), n |-> n]>>]

\* One step of the circulant construction: the next column is the previous
\* one shifted down by one position, the last element wrapping to the top.
ShiftDown(c) == IF c = <<>> THEN c ELSE <<c[Len(c)]>> \o SubSeq(c, 1, Len(c) - 1)

RECURSIVE CirculantColumn(_, _)
CirculantColumn(c, j) == IF j = 0 THEN c ELSE ShiftDown(CirculantColumn(c, j - 1))

\* scipy.linalg.circulant(c): the square matrix whose first column is c;
\* rows[i][j] is the entry of row i-1, column j-1.
\* (CirculantRowFirst: the variant whose first row, not column, is c.)
CirculantRowFirst(z) ==
  LET n == Len(z.num)
  IN  [rows |-> [i \in 1..n |-> CirculantColumn(z.num, i - 1)], rad |-> z.rad]

Circulant(z) ==
  LET n    == Len(z.num)
      cols == [j \in 1..n |-> CirculantColumn(z.num, j - 1)]
  IN  [rows |-> [i \in 1..n |-> [j \in 1..n |-> cols[j][i]]], rad |-> z.rad]

\* ndarray.T of a square matrix.  (TransposeOmitted: the matrix itself.)
TransposeOmitted(m) == m

Transpose(m) ==
  LET n == Len(m.rows)
  IN  [rows |-> [i \in 1..n |-> [j \in 1..n |-> m.rows[j][i]]], rad |-> m.rad]

\* ndarray.dot(matrix, vector) is defined only when the matrix has as many
\* columns as the vector has elements; numpy raises ValueError otherwise.
\* (DotAlignedPrefix: a product that accepts a shorter vector.)
DotAlignedPrefix(m, x) == \A i \in DOMAIN m.rows : Len(x.num) <= Len(m.rows[i])

DotAligned(m, x) == \A i \in DOMAIN m.rows : Len(m.rows[i]) = Len(x.num)

Dot(m, x) ==
  [num |-> [i \in DOMAIN m.rows |->
              SumSeq([k \in DOMAIN x.num |-> m.rows[i][k] * x.num[k]])],
   rad |-> m.rad \o x.rad]

\* v[i] < v[j] within one vector (one set of radicals).
ElemLess(v, i, j) == ScalarLess(v.num[i], v.rad, v.num[j], v.rad)

\* numpy.argmax(v): the 0-based index of the first maximum; a NaN counts as
\* the maximum, so the first NaN wins.  (ArgMaxLast: the last maximum.)
ArgMaxLast(v) ==
  IF IsNaN(v.rad) THEN Len(v.num) - 1
  ELSE (CHOOSE i \in DOMAIN v.num :
          /\ \A k \in DOMAIN v.num : ~ElemLess(v, i, k)
          /\ \A k \in DOMAIN v.num : k > i => ElemLess(v, k, i)) - 1

ArgMax(v) ==
  IF IsNaN(v.rad) THEN 0
  ELSE (CHOOSE i \in DOMAIN v.num :
          /\ \A k \in DOMAIN v.num : ~ElemLess(v, i, k)
          /\ \A k \in DOMAIN v.num : k < i => ElemLess(v, k, i)) - 1

\* round(x, 2) of the script, for x = num / (10 * den) beats per minute
\* (readings are in tenths): the nearest number of hundredths, ties to even.
Round2(x) ==
  LET n == 10 * x.num
      f == n \div x.den
      r == n % x.den
  IN  IF 2 * r < x.den THEN f
      ELSE IF 2 * r > x.den THEN f + 1
      ELSE IF f % 2 = 0 THEN f ELSE f + 1

\* numpy.mean(readings): the exact quotient sum / count, kept as a fraction.
\* (MeanRounded: the mean already rounded to hundredths.)
MeanRounded(readings) ==
  [num |-> Round2([num |-> SumSeq(readings), den |-> Len(readings)]), den |-> 10]

Mean(readings) == [num |-> SumSeq(readings), den |-> Len(readings)]

(***************************************************************************)
(* The audio file and the external collaborators.                          *)
(*                                                                         *)
(* An audio file is a sequence of segments of SegmentSeconds seconds each. *)
(* A segment is described by what the feature extractors compute from it:  *)
(* chroma, its column of the chromagram (energy per pitch class), and bpm, *)
(* the beat tracker's tempo reading for it (tenths of a beat per minute).  *)
(***************************************************************************)
SegmentSeconds == 10

SampleRate == 22050

None == <<>>

Some(x) == <<x>>

\* The profile of a key: profile rotated so that its tonic is pitch class k.
Rotated(profile, k) == CirculantColumn(profile, k)

\* A column of an extractor that returns `rows` pitch classes instead of 12.
Resize(column, rows) ==
  [i \in 1..rows |-> IF i <= Len(column) THEN column[i] ELSE 0]

\* librosa.load(path, duration=duration): the whole file when duration is
\* None, else only its first `duration` seconds.
Load(file, duration) ==
  IF duration = None THEN file
  ELSE LET keep == duration[1] \div SegmentSeconds
       IN  SubSeq(file, 1, IF keep < Len(file) THEN keep ELSE Len(file))

\* librosa.feature.chroma_stft(y, sr): the chromagram, here one column per
\* segment (chromagram[t][i] is the energy of pitch class i-1 in frame t).
ChromaStft(y) == [t \in DOMAIN y |-> y[t].chroma]

\* numpy.sum(chromagram, axis=1): the sum over the frames, per pitch class.
\* (SumOverPitch: axis=0, the sum over the pitch classes, per frame.)
SumOverPitch(chromagram) ==
  [t \in DOMAIN chromagram |-> SumSeq(chromagram[t])]

SumOverTime(chromagram) ==
  [i \in DOMAIN chromagram[1] |->
     SumSeq([t \in DOMAIN chromagram |-> chromagram[t][i]])]

\* librosa.beat.tempo(onset_envelope, sr): the tempo readings.
BeatTempo(y) == [t \in DOMAIN y |-> y[t].bpm]

(***************************************************************************)
(* State.                                                                  *)
(***************************************************************************)
VARIABLES
  args,                   \* the parsed command line
  file,                   \* the audio file at args.audio_filepath
  pc,                     \* position of the script
  output,                 \* the lines printed so far
  calls,                  \* calls made to the audio library, in order
  song,                   \* the Song object: audio_time_series, audio_sr
  X,                      \* locals of get_estimated_song_key
  major_profile_rotated,
  minor_profile_rotated,
  major_X,
  minor_X,
  major_winner,
  minor_winner,
  key_result,             \* what get_estimated_song_key returned or raised
  tempo_result            \* what get_tempo returned

vars == <<args, file, pc, output, calls, song, X, major_profile_rotated,
          minor_profile_rotated, major_X, minor_X, major_winner, minor_winner,
          key_result, tempo_result>>

keyLocals == <<X, major_profile_rotated, minor_profile_rotated, major_X, minor_X,
               major_winner, minor_winner, key_result>>

NoVector == [num |-> <<>>, rad |-> <<>>]

NoMatrix == [rows |-> <<>>, rad |-> <<>>]

NoResult == [kind |-> "none", value |-> ""]

NoTempo == [num |-> 0, den |-> 0]

NoSong == [audio_time_series |-> <<>>, audio_sr |-> 0]

Line(kind, text, value) == [kind |-> kind, text |-> text, value |-> value]

Call(fn, path, duration, y, sr) ==
  [fn |-> fn, path |-> path, duration |-> duration, y |-> y, sr |-> sr]

(***************************************************************************)
(* Inputs: command lines and audio files.                                  *)
(***************************************************************************)
Paths == {DefaultPath, "song.mp3"}

Tonics == 0..11

ConstColumn == [i \in 1..12 |-> 100]

ReadingValues == {955, 1200, 1210, 1220}

OtherRows == {10, 13}

Segment(chroma, bpm) == [chroma |-> chroma, bpm |-> bpm]

\* The columns heard in a song in the key of tonic k: its major profile, the
\* major profile a tritone away, its minor profile, and uniform energy.
Columns(k) ==
  {Rotated(MAJOR_PROFILE, k), Rotated(MAJOR_PROFILE, (k + 6) % 12),
   Rotated(MINOR_PROFILE, k), ConstColumn}

NonEmpty(S) == {s \in S : s # <<>>}

\* Files whose chroma content varies (12 pitch classes).
ChromaFiles ==
  UNION {{[t \in DOMAIN cs |-> Segment(cs[t], 1200)] :
            cs \in NonEmpty(SeqsUpTo(Columns(k), MaxSegments))} : k \in Tonics}

\* Files analysed by a chroma extractor that returns 10 or 13 rows.
OtherRowFiles ==
  UNION {{[t \in DOMAIN cs |-> Segment(Resize(cs[t], r), 1200)] :
            cs \in NonEmpty(SeqsUpTo({MAJOR_PROFILE, ConstColumn}, MaxSegments))} :
         r \in OtherRows}

\* Files whose tempo varies.
TempoFiles ==
  {[t \in DOMAIN bs |-> Segment(MAJOR_PROFILE, bs[t])] :
     bs \in NonEmpty(SeqsUpTo(ReadingValues, MaxReadings))}

Files == ChromaFiles \cup OtherRowFiles \cup TempoFiles

ArgsSet ==
  [audio_filepath : Paths, get_key : BOOLEAN, is_full_song : BOOLEAN,
   get_bpm : BOOLEAN]

(***************************************************************************)
(* Song.get_estimated_song_key, lines 88-96: the winners and the label.    *)
(***************************************************************************)
MaxLess(a, ai, b, bi) == ScalarLess(a.num[ai + 1], a.rad, b.num[bi + 1], b.rad)

\* (KeyLabelTieToMajor: >= in place of >, a tie resolved to the major key.)
KeyLabelTieToMajor(majorX, minorX) ==
  LET mw == ArgMax(majorX)
      nw == ArgMax(minorX)
  IN  IF ~MaxLess(majorX, mw, minorX, nw)
      THEN NOTE_NAMES[mw + 1] \o " major"
      ELSE NOTE_NAMES[nw + 1] \o " minor"

KeyLabel(majorX, minorX) ==
  LET mw == ArgMax(majorX)
      nw == ArgMax(minorX)
  IN  IF MaxLess(minorX, nw, majorX, mw)
      THEN NOTE_NAMES[mw + 1] \o " major"
      ELSE IF MaxLess(majorX, mw, minorX, nw)
      THEN NOTE_NAMES[nw + 1] \o " minor"
      ELSE NOTE_NAMES[mw + 1] \o " major or " \o NOTE_NAMES[nw + 1] \o " minor"

(***************************************************************************)
(* The script, lines 123-130.                                              *)
(***************************************************************************)
Init ==
  /\ args \in ArgsSet
  /\ file \in Files
  /\ pc = "start"
  /\ output = <<>>
  /\ calls = <<>>
  /\ song = NoSong
  /\ X = NoVector
  /\ major_profile_rotated = NoMatrix
  /\ minor_profile_rotated = NoMatrix
  /\ major_X = NoVector
  /\ minor_X = NoVector
  /\ major_winner = -1
  /\ minor_winner = -1
  /\ key_result = NoResult
  /\ tempo_result = NoTempo

\* print(f"Evaluating {args.audio_filepath}...")
PrintPath ==
  /\ pc = "start"
  /\ output' = Append(output, Line("path", args.audio_filepath, 0))
  /\ pc' = "construct"
  /\ UNCHANGED <<args, file, calls, song, keyLocals, tempo_result>>

\* None if args.is_full_song else 10
\* (DurationArgInverted: the two branches exchanged.)
DurationArgInverted(is_full_song) ==
  IF is_full_song THEN Some(DefaultDuration) ELSE None

DurationArg(is_full_song) ==
  IF is_full_song THEN None ELSE Some(DefaultDuration)

\* song = Song(args.audio_filepath, None if args.is_full_song else 10)
Construct ==
  /\ pc = "construct"
  /\ LET duration == DurationArg(args.is_full_song)
         y        == Load(file, duration)
     IN  /\ calls' = Append(calls, Call("load", args.audio_filepath, duration, <<>>, 0))
         /\ song' = [audio_time_series |-> y, audio_sr |-> SampleRate]
  /\ pc' = "key"
  /\ UNCHANGED <<args, file, output, keyLocals, tempo_result>>

\* if args.get_key: print("Estimated Key:", song.get_estimated_song_key())
EstimateKey ==
  /\ pc = "key"
  /\ args.get_key
  /\ LET chromagram == ChromaStft(song.audio_time_series)
         x          == ZScore(SumOverTime(chromagram))
         majorZ     == ZScore(MAJOR_PROFILE)
         minorZ     == ZScore(MINOR_PROFILE)
         majorRot   == Circulant(majorZ)
         minorRot   == Circulant(minorZ)
     IN  /\ calls' = Append(calls, Call("chroma_stft", "", None,
                                        song.audio_time_series, song.audio_sr))
         /\ X' = x
         /\ major_profile_rotated' = majorRot
         /\ minor_profile_rotated' = minorRot
         /\ IF DotAligned(Transpose(majorRot), x)
            THEN LET majorX == Dot(Transpose(majorRot), x)
                     minorX == Dot(Transpose(minorRot), x)
                     label  == KeyLabel(majorX, minorX)
                 IN  /\ major_X' = majorX
                     /\ minor_X' = minorX
                     /\ major_winner' = ArgMax(majorX)
                     /\ minor_winner' = ArgMax(minorX)
                     /\ key_result' = [kind |-> "return", value |-> label]
                     /\ output' = Append(output, Line("key", label, 0))
                     /\ pc' = "bpm"
            ELSE /\ key_result' = [kind |-> "raise", value |-> "ValueError"]
                 /\ pc' = "failed"
                 /\ UNCHANGED <<major_X, minor_X, major_winner, minor_winner, output>>
  /\ UNCHANGED <<args, file, song, tempo_result>>

\* (SkipKeyPrinting: the key is estimated and printed although not asked for.)
SkipKeyPrinting ==
  /\ pc = "key"
  /\ ~args.get_key
  /\ output' = Append(output, Line("key", "C major", 0))
  /\ pc' = "bpm"
  /\ UNCHANGED <<args, file, calls, song, keyLocals, tempo_result>>

SkipKey ==
  /\ pc = "key"
  /\ ~args.get_key
  /\ pc' = "bpm"
  /\ UNCHANGED <<args, file, output, calls, song, keyLocals, tempo_result>>

\* if args.get_bpm: print("Estimated Tempo:", round(song.get_tempo(), 2))
EstimateTempo ==
  /\ pc = "bpm"
  /\ args.get_bpm
  /\ LET tempo == Mean(BeatTempo(song.audio_time_series))
     IN  /\ tempo_result' = tempo
         /\ output' = Append(output, Line("tempo", "", Round2(tempo)))
  /\ calls' = calls \o <<Call("onset_strength", "", None,
                              song.audio_time_series, song.audio_sr),
                         Call("tempo", "", None,
                              song.audio_time_series, song.audio_sr)>>
  /\ pc' = "done"
  /\ UNCHANGED <<args, file, song, keyLocals>>

SkipTempo ==
  /\ pc = "bpm"
  /\ ~args.get_bpm
  /\ pc' = "done"
  /\ UNCHANGED <<args, file, output, calls, song, keyLocals, tempo_result>>

Next ==
  \/ PrintPath
  \/ Construct
  \/ EstimateKey
  \/ SkipKey
  \/ EstimateTempo
  \/ SkipTempo

Spec == Init /\ [][Next]_vars

(***************************************************************************)
(* The decision of get_estimated_song_key on its own: lines 88-96 applied  *)
(* to any pair of score vectors (plain integers, no radicals).             *)
(***************************************************************************)
PeakVector(p, v, w) ==
  [num |-> [j \in 1..12 |-> IF j = p + 1 THEN v
                            ELSE IF j = ((p + 6) % 12) + 1 THEN w ELSE -1],
   rad |-> <<>>]

ScoreVectors == {PeakVector(p, v, w) : p \in Tonics, v \in 0..MaxScore, w \in 0..MaxScore}

InitResolve ==
  /\ args = [audio_filepath |-> DefaultPath, get_key |-> TRUE,
             is_full_song |-> FALSE, get_bpm |-> FALSE]
  /\ file = <<>>
  /\ pc = "resolve"
  /\ output = <<>>
  /\ calls = <<>>
  /\ song = NoSong
  /\ X = NoVector
  /\ major_profile_rotated = NoMatrix
  /\ minor_profile_rotated = NoMatrix
  /\ major_X \in ScoreVectors
  /\ minor_X \in ScoreVectors
  /\ major_winner = -1
  /\ minor_winner = -1
  /\ key_result = NoResult
  /\ tempo_result = NoTempo

ResolveKey ==
  /\ pc = "resolve"
  /\ major_winner' = ArgMax(major_X)
  /\ minor_winner' = ArgMax(minor_X)
  /\ key_result' = [kind |-> "return", value |-> KeyLabel(major_X, minor_X)]
  /\ pc' = "resolved"
  /\ UNCHANGED <<args, file, output, calls, song, X, major_profile_rotated,
                 minor_profile_rotated, major_X, minor_X, tempo_result>>

NextResolve == ResolveKey

SpecResolve == InitResolve /\ [][NextResolve]_vars

(***************************************************************************)
(* Properties.                                                             *)
(***************************************************************************)
KeyRan == key_result.kind # "none"

KeyReturned == key_result.kind = "return"

\* The pitch-class distribution of the decoded audio, summed frame by frame.
RECURSIVE AddColumns(_)
AddColumns(y) ==
  IF Len(y) = 1 THEN y[1].chroma
  ELSE LET rest == AddColumns(Tail(y))
       IN  [i \in DOMAIN rest |-> y[1].chroma[i] + rest[i]]

Distribution == AddColumns(song.audio_time_series)

IsConstant(d) == \A i \in DOMAIN d : d[i] = d[1]

Standardized(profile) == ZScore(profile)

\* The largest element of a vector of integers and the places it is found at.
Largest(v) == CHOOSE x \in {v[i] : i \in DOMAIN v} : \A i \in DOMAIN v : v[i] <= x

PlacesOfLargest(v) == {i - 1 : i \in {k \in DOMAIN v : v[k] = Largest(v)}}

Lowest(S) == CHOOSE x \in S : \A y \in S : x <= y

\* C1: the label is "<major winner> major" when the major winner's score is
\* strictly greater than the minor winner's, "<minor winner> minor" when it is
\* strictly less, and the dual label "<major winner> major or <minor winner>
\* minor" when the two are equal; nothing else is returned.
C1_ThreeWayLabel ==
  pc = "resolved" =>
    LET M == major_X.num[major_winner + 1]
        m == minor_X.num[minor_winner + 1]
    IN  /\ key_result.kind = "return"
        /\ M > m => key_result.value = NOTE_NAMES[major_winner + 1] \o " major"
        /\ M < m => key_result.value = NOTE_NAMES[minor_winner + 1] \o " minor"
        /\ M = m => key_result.value =
                      NOTE_NAMES[major_winner + 1] \o " major or "
                        \o NOTE_NAMES[minor_winner + 1] \o " minor"

C1_TieReached ==
  /\ pc = "resolved"
  /\ major_X.num[major_winner + 1] = minor_X.num[minor_winner + 1]
  /\ major_winner = 3
  /\ minor_winner = 9
  /\ key_result.value = "D# major or A minor"

\* C2: scores[j] is the sum over i of standardized_profile[(i - j) mod 12] * X[i],
\* for the major and for the minor profile: the transpose of the template
\* matrix applied to X.
C2_ScoresAreTemplateCorrelations ==
  KeyReturned =>
    LET major == Standardized(MAJOR_PROFILE)
        minor == Standardized(MINOR_PROFILE)
    IN  /\ major_X.rad = major.rad \o X.rad
        /\ minor_X.rad = minor.rad \o X.rad
        /\ \A j \in 0..11 :
             /\ major_X.num[j + 1] =
                  SumSeq([i \in 1..12 |-> major.num[((i - 1 - j) % 12) + 1] * X.num[i]])
             /\ minor_X.num[j + 1] =
                  SumSeq([i \in 1..12 |-> minor.num[((i - 1 - j) % 12) + 1] * X.num[i]])

C2_ScoresComputed ==
  /\ KeyReturned
  /\ ~IsNaN(X.rad)
  /\ major_winner = 7
  /\ Len(song.audio_time_series) = 2

\* C3: the template matrix of each profile is circulant over the standardized
\* profile: entry (row i, column j) is standardize(P)[(i - j) mod 12]; column 0
\* is standardize(P).
C3_TemplateIsCirculant ==
  KeyRan =>
    LET major == Standardized(MAJOR_PROFILE)
        minor == Standardized(MINOR_PROFILE)
    IN  /\ major_profile_rotated.rad = major.rad
        /\ minor_profile_rotated.rad = minor.rad
        /\ \A i \in 0..11 :
             /\ major_profile_rotated.rows[i + 1][1] = major.num[i + 1]
             /\ minor_profile_rotated.rows[i + 1][1] = minor.num[i + 1]
        /\ \A i \in 0..11, j \in 0..11 :
             /\ major_profile_rotated.rows[i + 1][j + 1] = major.num[((i - j) % 12) + 1]
             /\ minor_profile_rotated.rows[i + 1][j + 1] = minor.num[((i - j) % 12) + 1]

C3_TemplateBuilt ==
  /\ KeyReturned
  /\ Len(major_profile_rotated.rows) = 12
  /\ major_profile_rotated.rows[1][2] # major_profile_rotated.rows[2][1]

\* C4: each winner is the lowest pitch class at which its score vector is
\* largest, and lies in 0..11.  (When every score is NaN, the first index.)
C4_WinnerIsFirstMaximum ==
  KeyReturned =>
    /\ major_winner \in 0..11
    /\ minor_winner \in 0..11
    /\ IF IsNaN(major_X.rad) THEN major_winner = 0
       ELSE major_winner = Lowest(PlacesOfLargest(major_X.num))
    /\ IF IsNaN(minor_X.rad) THEN minor_winner = 0
       ELSE minor_winner = Lowest(PlacesOfLargest(minor_X.num))

C4_SharedMaximum ==
  /\ KeyReturned
  /\ ~IsNaN(major_X.rad)
  /\ PlacesOfLargest(major_X.num) = {4, 10}
  /\ major_winner = 4

\* C5: when the distribution is MAJOR_PROFILE rotated by k semitones, the major
\* winner is k and the label is "<name of k> major".
C5_KeyRecovery ==
  KeyRan =>
    LET d == Distribution
    IN  \A k \in 0..11 :
          d = [i \in 1..12 |-> MAJOR_PROFILE[((i - 1 - k) % 12) + 1]]
            => /\ major_winner = k
               /\ key_result = [kind |-> "return",
                                value |-> NOTE_NAMES[k + 1] \o " major"]

C5_DMajorRecovered ==
  /\ key_result = [kind |-> "return", value |-> "D major"]
  /\ Distribution = [i \in 1..12 |-> MAJOR_PROFILE[((i - 3) % 12) + 1]]
  /\ major_winner = 2

\* C6: key estimation on a constant distribution (zero variance) never returns
\* a label computed from undefined (NaN) scores: it fails with
\* DegenerateInputError or works from the all-zero vector.
C6_NoLabelFromNaN ==
  (KeyRan /\ Len(Distribution) = 12 /\ IsConstant(Distribution)) =>
    \/ key_result = [kind |-> "raise", value |-> "DegenerateInputError"]
    \/ /\ ~IsNaN(X.rad)
       /\ \A i \in DOMAIN X.num : X.num[i] = 0
       /\ ~IsNaN(major_X.rad)
       /\ ~IsNaN(minor_X.rad)

C8_TempoIsExactMean ==
  tempo_result # NoTempo =>
    LET readings == [t \in DOMAIN song.audio_time_series |->
                       song.audio_time_series[t].bpm]
    IN  /\ tempo_result.den > 0
        /\ tempo_result.num * Len(readings) = SumSeq(readings) * tempo_result.den
        /\ Len(readings) = 1 => tempo_result.num = readings[1] * tempo_result.den
        /\ readings = <<1200, 1220, 1210>> => tempo_result.num = 1210 * tempo_result.den
        /\ output[Len(output)] = Line("tempo", "", Round2(tempo_result))

C8_ThreeReadings ==
  /\ tempo_result # NoTempo
  /\ BeatTempo(song.audio_time_series) = <<955, 1200, 1200>>
  /\ 3 * tempo_result.num = 3355 * tempo_result.den
  /\ output[Len(output)].value = 11183

\* C9: the decoder is called once, with a limit of 10 seconds without
\* --fullsong and with no limit with it, whatever --key and --bpm are; every
\* feature extraction of the run works on the waveform that call decoded.
C9_DecodeWindow ==
  LET loads == {n \in DOMAIN calls : calls[n].fn = "load"}
  IN  /\ Cardinality(loads) <= 1
      /\ pc \notin {"start", "construct"} =>
           /\ loads = {1}
           /\ calls[1].path = args.audio_filepath
           /\ args.is_full_song => calls[1].duration = None /\ song.audio_time_series = file
           /\ ~args.is_full_song =>
                /\ calls[1].duration = <<10>>
                /\ song.audio_time_series =
                     SubSeq(file, 1, IF Len(file) * SegmentSeconds <= 10
                                     THEN Len(file) ELSE 10 \div SegmentSeconds)
      /\ \A n \in DOMAIN calls \ loads :
           /\ calls[n].y = song.audio_time_series
           /\ calls[n].sr = song.audio_sr

C9_TenSecondsOfLongerFile ==
  /\ pc = "done"
  /\ args.get_key
  /\ args.get_bpm
  /\ ~args.is_full_song
  /\ Len(file) = 2
  /\ Len(song.audio_time_series) = 1
  /\ Len(calls) = 4

\* C10: a successful run prints the path line first (before the audio is
\* decoded), then the key line if and only if --key was given, then the tempo
\* line if and only if --bpm was given, and nothing else.
C10_OutputOrder ==
  /\ calls # <<>> => Len(output) >= 1
  /\ output # <<>> => output[1] = Line("path", args.audio_filepath, 0)
  /\ \A n \in DOMAIN output : n > 1 => output[n].kind # "path"
  /\ \A n \in DOMAIN output, k \in DOMAIN output :
       (output[n].kind = "tempo" /\ output[k].kind = "key") => k < n
  /\ \A n \in DOMAIN output :
       /\ output[n].kind = "key" => args.get_key
       /\ output[n].kind = "tempo" => args.get_bpm
  /\ pc = "done" =>
       [n \in DOMAIN output |-> output[n].kind] =
         <<"path">> \o (IF args.get_key THEN <<"key">> ELSE <<>>)
                    \o (IF args.get_bpm THEN <<"tempo">> ELSE <<>>)

C10_BothEstimatesPrinted ==
  /\ pc = "done"
  /\ args.get_key
  /\ args.get_bpm
  /\ Len(output) = 3
  /\ output[2].kind = "key"
  /\ output[3].kind = "tempo"

====
